---- MODULE Spec2Model ----
(***************************************************************************)
(* Model of src/app.py: a Streamlit page that takes a stock ticker, calls  *)
(* Alpha Vantage (AV) and Financial Modeling Prep (FMP) over HTTP, merges  *)
(* the answers into one mapping, sends a prompt to a chat model and shows  *)
(* the reply together with a price pulled out of it by a regular           *)
(* expression.                                                             *)
(*                                                                         *)
(* Text is a sequence of tokens.  A token is one character ("7", ".", " ") *)
(* or a chunk of text the program never looks inside ("N/A", "15.2",       *)
(* "Target Entry Point:", "w" for a word).  Digits, the letters of sector  *)
(* names and the characters of the ticker are always single characters.    *)
(***************************************************************************)
EXTENDS Integers, Sequences, FiniteSets, TLC

VARIABLES
    upstream,           \* what each remote endpoint answers during this behaviour
    pc,                 \* position of the script run
    ticker,             \* value of the text input (line 158)
    requests,           \* outbound requests issued by the current run, in order
    overview_response,  \* line 18
    fmp_sector,         \* line 21
    fmp_industry,       \* line 21
    sector_pe,          \* line 24
    income_response,    \* line 27
    balance_response,   \* line 28
    data,               \* line 163: the snapshot fetch_fundamental_data returned
    analysis,           \* line 169
    target_price,       \* line 169
    prompt,             \* the user message of the chat request (lines 106-135)
    display,            \* what the page shows, in order
    exception           \* the uncaught exception that ended the run, or NoException

vars == << upstream, pc, ticker, requests, overview_response, fmp_sector,
           fmp_industry, sector_pe, income_response, balance_response, data,
           analysis, target_price, prompt, display, exception >>

-----------------------------------------------------------------------------
(* Bounds of the model. *)

\* longest ticker typed, in characters
MaxTickerLen == 1
\* largest totalAssets / totalLiabilities figure of the balance-sheet sweep
MaxAmount == 9
\* most segments a model reply of the reply sweep is made of
MaxSegments == 3
\* most rows of the sector P/E table of the sector sweep
MaxTableLen == 2

-----------------------------------------------------------------------------
(* Python values. *)

\* JSON null / Python None; no text holds this token
Null == << "<null>" >>

\* a JSON object with no members: {}
EmptyObject == [k \in {} |-> << >>]

\* bool(v) of a string or None: None and "" are falsy
Truthy(v) == v # Null /\ Len(v) > 0

\* d.get(k, default)
Get(d, k, default) == IF k \in DOMAIN d THEN d[k] ELSE default

\* d.get(k): None when the key is absent
GetOrNone(d, k) == Get(d, k, Null)

\* the sentinel of fetch_fundamental_data and its helpers
NA == << "N/A" >>

\* the sentinel of analyze_with_gpt
NotAvailable == << "Not Available" >>

\* the label the prompt asks for and the expression looks for
Label == "Target Entry Point:"

\* the text of st.error on an empty ticker
InvalidTickerMessage == << "Please enter a valid stock ticker." >>

DigitChars == { "0", "1", "2", "3", "4", "5", "6", "7", "8", "9" }

DigitSeq == << "0", "1", "2", "3", "4", "5", "6", "7", "8", "9" >>

DigitChar(n) == DigitSeq[n + 1]

DigitVal(c) == CHOOSE n \in 0..9 : DigitSeq[n + 1] = c

\* str.isspace of one character
WhitespaceChars == { " ", "\n" }

\* int(s) and float(s) accept s: here a non-empty run of decimal digits.  Any
\* other text of the model ("None", "15.2" as one token) raises ValueError.
IsNumeral(s) == s # Null /\ Len(s) > 0 /\ \A i \in 1..Len(s) : s[i] \in DigitChars

\* int(s) of a numeral; float(s) has the same value (exact below 2^53)
RECURSIVE ParseInt(_)
ParseInt(s) ==
    IF Len(s) = 0 THEN 0
    ELSE ParseInt(SubSeq(s, 1, Len(s) - 1)) * 10 + DigitVal(s[Len(s)])

\* str(n) of a natural number
RECURSIVE DecStr(_)
DecStr(n) ==
    IF n < 10 THEN << DigitChar(n) >>
    ELSE DecStr(n \div 10) \o << DigitChar(n % 10) >>

\* the digits d[i..] with a comma before every digit that has a multiple of
\* three digits from it to the end, the first digit excepted
RECURSIVE GroupFrom(_, _)
GroupFrom(d, i) ==
    IF i > Len(d) THEN << >>
    ELSE (IF i > 1 /\ (Len(d) - i + 1) % 3 = 0 THEN << "," >> ELSE << >>)
         \o << d[i] >> \o GroupFrom(d, i + 1)

\* a bug: the digits without their grouping
CommaFormatUngrouped(n) == DecStr(n)

\* f"{n:,}" of a natural number
CommaFormat(n) == GroupFrom(DecStr(n), 1)

RECURSIVE Gcd(_, _)
Gcd(a, b) == IF b = 0 THEN a ELSE Gcd(b, a % b)

RECURSIVE IsPowerOfTwo(_)
IsPowerOfTwo(n) == n = 1 \/ (n > 1 /\ n % 2 = 0 /\ IsPowerOfTwo(n \div 2))

\* l / e is a binary fraction, so the float quotient is exact
ExactQuotient(l, e) == IsPowerOfTwo(e \div Gcd(l, e))

\* round(l / e, 2) for l >= 0, e > 0, as the set of hundredths it can be.  Off a
\* tie it is the nearest hundredth.  On a tie the float decides: an exact
\* quotient rounds half to even, any other quotient lies just above or just
\* below the tie, and both neighbours are kept.
RoundHundredths(l, e) ==
    LET q == l \div e
        t == 100 * (l % e)
        h == t \div e
        rem == t % e
        lo == 100 * q + h
    IN  IF 2 * rem < e THEN { lo }
        ELSE IF 2 * rem > e THEN { lo + 1 }
        ELSE IF ExactQuotient(l, e) THEN { IF h % 2 = 0 THEN lo ELSE lo + 1 }
        ELSE { lo, lo + 1 }

\* str(x) of a float with at most two decimals, given in hundredths, with its
\* sign apart (round() of a tiny negative is -0.0, shown as "-0.0")
FloatStr(negative, hundredths) ==
    LET f == hundredths % 100
    IN  (IF negative THEN << "-" >> ELSE << >>)
        \o DecStr(hundredths \div 100) \o << "." >>
        \o (IF f % 10 = 0 THEN << DigitChar(f \div 10) >>
            ELSE << DigitChar(f \div 10), DigitChar(f % 10) >>)

\* s.strip(): leading and trailing whitespace removed
RECURSIVE Strip(_)
Strip(s) ==
    IF Len(s) = 0 THEN s
    ELSE IF s[1] \in WhitespaceChars THEN Strip(Tail(s))
    ELSE IF s[Len(s)] \in WhitespaceChars THEN Strip(SubSeq(s, 1, Len(s) - 1))
    ELSE s

-----------------------------------------------------------------------------
(* What an endpoint can answer.  status is "transport_error" (requests.get   *)
(* raises), "http_error" (a non-200 status), "not_json" (status 200, body    *)
(* not JSON) or "ok" (status 200, body JSON).  An AV body is a JSON object.  *)
(* An FMP body is [isList, items]: a JSON list of objects, or a JSON object  *)
(* whose members are items.                                                  *)

Answer(status, body) == [status |-> status, body |-> body]

\* the exception requests.get(...).json() of lines 18, 27, 28 raises, or NoException
NoException == "none"

AvGetException(answer) ==
    CASE answer.status = "transport_error" -> "ConnectionError"
      [] answer.status = "not_json" -> "JSONDecodeError"
      [] OTHER -> NoException

\* fetch_fmp_sector: [exc, sector, industry]
FetchFmpSector(answer) ==
    LET none == [exc |-> NoException, sector |-> NA, industry |-> NA]
        body == answer.body
    IN  CASE answer.status = "transport_error" ->
                [exc |-> "ConnectionError", sector |-> NA, industry |-> NA]
          [] answer.status = "http_error" -> none
          [] answer.status = "not_json" ->
                [exc |-> "JSONDecodeError", sector |-> NA, industry |-> NA]
          [] OTHER ->
                IF body.isList /\ Len(body.items) > 0
                THEN [exc |-> NoException,
                      sector |-> Get(body.items[1], "sector", NA),
                      industry |-> Get(body.items[1], "industry", NA)]
                ELSE none

\* str.lower of one character, for the letters sector names are made of
LowerChar(c) ==
    CASE c = "T" -> "t"
      [] c = "E" -> "e"
      [] c = "F" -> "f"
      [] c = "I" -> "i"
      [] OTHER -> c

\* s.lower()
Lower(s) == [i \in 1..Len(s) |-> LowerChar(s[i])]

\* a bug: keys compared with their case folded
SameKeyFolded(a, b) == Lower(a) = Lower(b)

\* equality of two dict keys, as "in" and [] of lines 94, 95 compare them
SameKey(a, b) == a = b

\* lines 92-97: the dict built from rows (a later row with the same sector
\* replaces an earlier one), then sector_pe_dict[sector] or "N/A"
SectorPeOf(rows, sector) ==
    IF \E i \in 1..Len(rows) : SameKey(rows[i]["sector"], sector)
    THEN LET last == CHOOSE i \in 1..Len(rows) :
                        /\ SameKey(rows[i]["sector"], sector)
                        /\ \A j \in (i + 1)..Len(rows) :
                              ~SameKey(rows[j]["sector"], sector)
         IN  rows[last]["pe"]
    ELSE NA

\* fetch_sector_pe_ratio: the set of [exc, value] it can end with.  A body that
\* is not JSON raises a JSONDecodeError, which is a RequestException (caught)
\* from requests 2.27 on and a plain ValueError (not caught) before; the
\* repository pins no version, so both are kept.
FetchSectorPeRatio(answer, sector) ==
    LET na == [exc |-> NoException, value |-> NA]
        body == answer.body
    IN  CASE answer.status \in { "transport_error", "http_error" } -> { na }
          [] answer.status = "not_json" -> { na, [exc |-> "ValueError", value |-> NA] }
          [] OTHER ->
                IF Len(body.items) = 0 THEN { na }
                ELSE IF ~body.isList THEN { [exc |-> "TypeError", value |-> NA] }
                ELSE IF \E i \in 1..Len(body.items) :
                            ~({ "sector", "pe" } \subseteq DOMAIN body.items[i])
                THEN { [exc |-> "KeyError", value |-> NA] }
                ELSE { [exc |-> NoException, value |-> SectorPeOf(body.items, sector)] }

\* response.get("annualReports", [{}]) of lines 31, 32
AnnualReports(response) == Get(response, "annualReports", << EmptyObject >>)

\* f"{int(d.get(k, '0')):,}" if d.get(k) else "N/A" of lines 47-49
IntField(d, k) ==
    IF Truthy(GetOrNone(d, k)) THEN CommaFormat(ParseInt(Get(d, k, << "0" >>))) ELSE NA

\* int(d.get(k, '0')) of lines 47-49, float(d.get(k, "0")) of lines 35, 36 raise
NumberFieldRaises(d, k) == Truthy(GetOrNone(d, k)) /\ ~IsNumeral(Get(d, k, << "0" >>))

\* float(d.get(k, "0")) if d.get(k) else None of lines 35, 36, as [some, val]
FloatField(d, k) ==
    IF Truthy(GetOrNone(d, k))
    THEN [some |-> TRUE, val |-> ParseInt(Get(d, k, << "0" >>))]
    ELSE [some |-> FALSE, val |-> 0]

\* bool(x) of a float or None
TruthyNumber(x) == x.some /\ x.val # 0

\* lines 37, 38, 54: the texts "Debt/Equity Ratio" can hold
DebtEquityTexts(total_assets, total_liabilities) ==
    LET both == TruthyNumber(total_assets) /\ TruthyNumber(total_liabilities)
        shareholder_equity == total_assets.val - total_liabilities.val
    IN  IF both /\ shareholder_equity # 0
        THEN { FloatStr(shareholder_equity < 0, h) :
                 h \in RoundHundredths(total_liabilities.val,
                                       IF shareholder_equity < 0
                                       THEN 0 - shareholder_equity
                                       ELSE shareholder_equity) }
        ELSE { NA }

\* f"{int(x):,}" if x else "N/A" of lines 50, 51
AmountText(x) == IF TruthyNumber(x) THEN CommaFormat(x.val) ELSE NA

\* m without the keys whose value is the sentinel
WithoutSentinels(m) == [k \in { j \in DOMAIN m : m[j] # NA } |-> m[k]]

\* a bug: a snapshot that leaves out what is not available
FundamentalDataSparse(t, overview, sector, industry, pe, latest_income, total_assets, total_liabilities, debt_equity) ==
    WithoutSentinels(
        ("Ticker" :> t)
        @@ ("Company Name" :> Get(overview, "Name", NA))
        @@ ("Sector" :> sector)
        @@ ("Industry" :> industry)
        @@ ("Sector P/E" :> pe)
        @@ ("Market Cap" :> IntField(overview, "MarketCapitalization"))
        @@ ("Revenue" :> IntField(latest_income, "totalRevenue"))
        @@ ("Net Income" :> IntField(latest_income, "netIncome"))
        @@ ("Total Assets" :> AmountText(total_assets))
        @@ ("Total Liabilities" :> AmountText(total_liabilities))
        @@ ("P/E Ratio" :> Get(overview, "PERatio", NA))
        @@ ("EPS" :> Get(overview, "EPS", NA))
        @@ ("Debt/Equity Ratio" :> debt_equity)
        @@ ("ROE" :> Get(overview, "ReturnOnEquityTTM", NA))
        @@ ("ROA" :> Get(overview, "ReturnOnAssetsTTM", NA)))

\* the dict literal of lines 41-57, given the text of "Debt/Equity Ratio"
FundamentalData(t, overview, sector, industry, pe, latest_income, total_assets, total_liabilities, debt_equity) ==
    ("Ticker" :> t)
    @@ ("Company Name" :> Get(overview, "Name", NA))
    @@ ("Sector" :> sector)
    @@ ("Industry" :> industry)
    @@ ("Sector P/E" :> pe)
    @@ ("Market Cap" :> IntField(overview, "MarketCapitalization"))
    @@ ("Revenue" :> IntField(latest_income, "totalRevenue"))
    @@ ("Net Income" :> IntField(latest_income, "netIncome"))
    @@ ("Total Assets" :> AmountText(total_assets))
    @@ ("Total Liabilities" :> AmountText(total_liabilities))
    @@ ("P/E Ratio" :> Get(overview, "PERatio", NA))
    @@ ("EPS" :> Get(overview, "EPS", NA))
    @@ ("Debt/Equity Ratio" :> debt_equity)
    @@ ("ROE" :> Get(overview, "ReturnOnEquityTTM", NA))
    @@ ("ROA" :> Get(overview, "ReturnOnAssetsTTM", NA))

\* the exception lines 31-57 raise, the first in program order, or NoException
BuildException(overview, income, balance) ==
    IF Len(AnnualReports(income)) = 0 THEN "IndexError"
    ELSE IF Len(AnnualReports(balance)) = 0 THEN "IndexError"
    ELSE LET latest_income == AnnualReports(income)[1]
             latest_balance == AnnualReports(balance)[1]
         IN  IF \/ NumberFieldRaises(latest_balance, "totalAssets")
                \/ NumberFieldRaises(latest_balance, "totalLiabilities")
                \/ NumberFieldRaises(overview, "MarketCapitalization")
                \/ NumberFieldRaises(latest_income, "totalRevenue")
                \/ NumberFieldRaises(latest_income, "netIncome")
             THEN "ValueError"
             ELSE NoException

\* lines 31-59 when nothing raises: the snapshots fetch_fundamental_data can return
BuildFundamentalData(t, overview, sector, industry, pe, income, balance) ==
    LET latest_income == AnnualReports(income)[1]
        latest_balance == AnnualReports(balance)[1]
        total_assets == FloatField(latest_balance, "totalAssets")
        total_liabilities == FloatField(latest_balance, "totalLiabilities")
    IN  { FundamentalData(t, overview, sector, industry, pe, latest_income,
                          total_assets, total_liabilities, de) :
            de \in DebtEquityTexts(total_assets, total_liabilities) }

-----------------------------------------------------------------------------
(* analyze_with_gpt and the page. *)

\* the keys the prompt of lines 106-135 interpolates, in order
PromptFields ==
    << "Ticker", "Company Name", "Sector", "Sector P/E", "P/E Ratio", "Market Cap",
       "Revenue", "Net Income", "Total Assets", "Total Liabilities", "EPS",
       "Debt/Equity Ratio", "ROE", "ROA" >>

PromptKeys == { PromptFields[i] : i \in 1..Len(PromptFields) }

\* the values the prompt carries, in the order of the template
Prompt(fundamental_data) ==
    [i \in 1..Len(PromptFields) |-> fundamental_data[PromptFields[i]]]

\* index of the first Label in s, or 0
FirstLabel(s) ==
    IF \E i \in 1..Len(s) : s[i] = Label
    THEN CHOOSE i \in 1..Len(s) : s[i] = Label /\ \A j \in 1..(i - 1) : s[j] # Label
    ELSE 0

\* full_response.split("Target Entry Point:")[0].strip() of line 146
TakeawaysPart(full_response) ==
    LET i == FirstLabel(full_response)
    IN  Strip(IF i = 0 THEN full_response ELSE SubSeq(full_response, 1, i - 1))

\* the end of the longest run of digits of s that starts at i, or i - 1
RECURSIVE DigitsEnd(_, _)
DigitsEnd(s, i) ==
    IF i <= Len(s) /\ s[i] \in DigitChars THEN DigitsEnd(s, i + 1) ELSE i - 1

\* where r"Target Entry Point: \$(\d+\.\d+)" matched at i ends in s, or 0
MatchEnd(s, i) ==
    IF i + 5 <= Len(s) /\ s[i] = Label /\ s[i + 1] = " " /\ s[i + 2] = "$"
    THEN LET e1 == DigitsEnd(s, i + 3)
         IN  IF e1 >= i + 3 /\ e1 + 2 <= Len(s) /\ s[e1 + 1] = "."
                /\ DigitsEnd(s, e1 + 2) >= e1 + 2
             THEN DigitsEnd(s, e1 + 2)
             ELSE 0
    ELSE 0

\* re.search: the leftmost position the expression matches at, or 0
SearchStart(s) ==
    IF \E i \in 1..Len(s) : MatchEnd(s, i) > 0
    THEN CHOOSE i \in 1..Len(s) :
            MatchEnd(s, i) > 0 /\ \A j \in 1..(i - 1) : MatchEnd(s, j) = 0
    ELSE 0

\* lines 147, 148
TargetPrice(full_response) ==
    LET i == SearchStart(full_response)
    IN  IF i > 0 THEN SubSeq(full_response, i, MatchEnd(full_response, i))
        ELSE NotAvailable

\* s.split("\n")
RECURSIVE SplitLines(_)
SplitLines(s) ==
    IF \E i \in 1..Len(s) : s[i] = "\n"
    THEN LET i == CHOOSE k \in 1..Len(s) : s[k] = "\n" /\ \A j \in 1..(k - 1) : s[j] # "\n"
         IN  << SubSeq(s, 1, i - 1) >> \o SplitLines(SubSeq(s, i + 1, Len(s)))
    ELSE << s >>

Shown(kind, text) == [kind |-> kind, text |-> text]

\* lines 173-175: one st.write for every line that is not blank
RECURSIVE TakeawayLines(_)
TakeawayLines(lines) ==
    IF Len(lines) = 0 THEN << >>
    ELSE (IF Len(Strip(lines[1])) > 0 THEN << Shown("write", lines[1]) >> ELSE << >>)
         \o TakeawayLines(Tail(lines))

-----------------------------------------------------------------------------
(* The answers the endpoints are drawn from. *)

\* all sequences over S of length at most n
SeqsUpTo(S, n) == UNION { [1..k -> S] : k \in 0..n }

\* in a fixture: the key is not in the object
Absent == << "<absent>" >>

\* the object {k: v}, or {} when v is Absent
Member(k, v) == IF v = Absent THEN EmptyObject ELSE (k :> v)

\* what the user can type: letters and blanks
TickerChars == { "A", " " }

Tickers == SeqsUpTo(TickerChars, MaxTickerLen)

OverviewObject(name, cap, ratio) ==
    Member("Name", name) @@ Member("MarketCapitalization", cap)
    @@ Member("PERatio", ratio) @@ Member("EPS", ratio)
    @@ Member("ReturnOnEquityTTM", ratio) @@ Member("ReturnOnAssetsTTM", ratio)

OverviewFull == OverviewObject(<< "Acme" >>, << "1", "2", "3", "4" >>, << "15.2" >>)

\* a body {"annualReports": reports}
Statement(reports) == ("annualReports" :> reports)

IncomeReport(revenue, net) == Member("totalRevenue", revenue) @@ Member("netIncome", net)

BalanceReport(assets, liabilities) ==
    Member("totalAssets", assets) @@ Member("totalLiabilities", liabilities)

IncomeFull == Statement(<< IncomeReport(<< "5", "0", "0", "0" >>, << "7", "0", "0" >>) >>)

BalanceFull == Statement(<< BalanceReport(<< "9" >>, << "4" >>) >>)

JsonList(items) == [isList |-> TRUE, items |-> items]

JsonObject(items) == [isList |-> FALSE, items |-> items]

Tech == << "T", "e" >>

Fin == << "F", "i" >>

ProfileItem(sector) == Member("sector", sector) @@ ("industry" :> << "Software" >>)

Row(sector, pe) == ("sector" :> sector) @@ ("pe" :> pe)

TableFull == JsonList(<< Row(Tech, << "25.1" >>), Row(Fin, << "12.7" >>) >>)

ReplyFull == << "w", "\n", "w", "\n", Label, " ", "$", "1", "2", ".", "5" >>

ReplyPlain == << "w", "\n", "w" >>

Chat(status, content) == [status |-> status, content |-> content]

World(overview, profile, table, income, balance, llm) ==
    [overview |-> overview, profile |-> profile, sector_pe |-> table,
     income |-> income, balance |-> balance, llm |-> llm]

Healthy ==
    World(Answer("ok", OverviewFull), Answer("ok", JsonList(<< ProfileItem(Tech) >>)),
          Answer("ok", TableFull), Answer("ok", IncomeFull), Answer("ok", BalanceFull),
          Chat("ok", ReplyFull))

OverviewAnswers ==
    { Answer("transport_error", EmptyObject), Answer("not_json", EmptyObject),
      Answer("http_error", EmptyObject), Answer("ok", OverviewFull) }

ProfileAnswers ==
    { Answer("transport_error", JsonList(<< >>)), Answer("http_error", JsonObject(<< >>)),
      Answer("not_json", JsonList(<< >>)), Answer("ok", JsonList(<< >>)),
      Answer("ok", JsonList(<< ProfileItem(Tech) >>)) }

SectorPeAnswers ==
    { Answer("transport_error", JsonList(<< >>)), Answer("not_json", JsonList(<< >>)),
      Answer("ok", JsonList(<< >>)), Answer("ok", TableFull) }

IncomeAnswers ==
    { Answer("transport_error", EmptyObject), Answer("not_json", EmptyObject),
      Answer("ok", EmptyObject), Answer("ok", IncomeFull) }

BalanceAnswers ==
    { Answer("transport_error", EmptyObject), Answer("not_json", EmptyObject),
      Answer("ok", EmptyObject), Answer("ok", Statement(<< >>)), Answer("ok", BalanceFull) }

ChatAnswers == { Chat("error", << >>), Chat("ok", ReplyPlain), Chat("ok", ReplyFull) }

\* every combination of failing, empty and healthy lookups
CombinationWorlds ==
    { World(o, p, t, i, b, c) :
        o \in OverviewAnswers, p \in ProfileAnswers, t \in SectorPeAnswers,
        i \in IncomeAnswers, b \in BalanceAnswers, c \in ChatAnswers }

\* what a figure of a report can be: missing, empty, null, AV's "None", a number
AmountTexts ==
    { Absent, << >>, Null, << "None" >> } \cup { DecStr(n) : n \in 0..MaxAmount }

\* every pair of balance-sheet figures, the other lookups healthy
BalanceWorlds ==
    { [Healthy EXCEPT !.balance = Answer("ok", Statement(<< BalanceReport(a, l) >>))] :
        a \in AmountTexts, l \in AmountTexts }

Magnitudes ==
    { 0, 1, 999, 1000, 999999, 1000000, 1234567, 999999999, 1000000000, 2000000000 }

FigureTexts == { Absent, << >>, Null, << "None" >> } \cup { DecStr(m) : m \in Magnitudes }

\* one figure in all five places that show a magnitude, the rest healthy
MagnitudeWorlds ==
    { [Healthy EXCEPT
         !.overview = Answer("ok", OverviewObject(<< "Acme" >>, f, << "15.2" >>)),
         !.income = Answer("ok", Statement(<< IncomeReport(f, f) >>)),
         !.balance = Answer("ok", Statement(<< BalanceReport(f, f) >>))] :
        f \in FigureTexts }

Segments ==
    { << "w" >>, << "\n" >>, << " " >>, << "9" >>,
      << Label, " ", "$", "1", "2", ".", "5" >>,
      << Label, " ", "$", "7" >>,
      << Label, " ", "w" >>,
      << "$", "3", ".", "0" >> }

RECURSIVE Concat(_)
Concat(ss) == IF Len(ss) = 0 THEN << >> ELSE ss[1] \o Concat(Tail(ss))

Replies == { Concat(ss) : ss \in SeqsUpTo(Segments, MaxSegments) }

\* every reply of the chat model, the lookups healthy
ReplyWorlds == { [Healthy EXCEPT !.llm = Chat("ok", r)] : r \in Replies }

SectorNames == { Tech, << "t", "e" >>, << "T", "E" >>, Fin }

Rows == { Row(n, pe) : n \in SectorNames, pe \in { << "25.1" >>, << "12.7" >> } }

Tables ==
    { Answer("ok", JsonList(rows)) : rows \in SeqsUpTo(Rows, MaxTableLen) }
    \cup { Answer("http_error", JsonObject(<< >>)),
           Answer("ok", JsonObject(<< ("Error Message" :> << "w" >>) >>)),
           Answer("ok", JsonList(<< ("sector" :> Tech) >>)) }

\* every sector of the profile against every table, the rest healthy
SectorWorlds ==
    { [Healthy EXCEPT !.profile = Answer("ok", JsonList(<< ProfileItem(n) >>)),
                      !.sector_pe = t] :
        n \in SectorNames \cup { Absent, Null }, t \in Tables }

Worlds ==
    CombinationWorlds \cup BalanceWorlds \cup MagnitudeWorlds \cup ReplyWorlds
    \cup SectorWorlds

-----------------------------------------------------------------------------
(* The script run. *)

Init ==
    /\ upstream \in Worlds
    /\ pc = "idle"
    /\ ticker = << >>
    /\ requests = << >>
    /\ overview_response = EmptyObject
    /\ fmp_sector = Null
    /\ fmp_industry = Null
    /\ sector_pe = Null
    /\ income_response = EmptyObject
    /\ balance_response = EmptyObject
    /\ data = EmptyObject
    /\ analysis = << >>
    /\ target_price = << >>
    /\ prompt = << >>
    /\ display = << >>
    /\ exception = NoException

\* an exception nothing catches: Streamlit shows it and the run ends
Raise(e) ==
    /\ pc' = "raised"
    /\ exception' = e
    /\ display' = Append(display, Shown("exception", << e >>))

\* lines 158-161, 180, 181: the button is pressed with t in the text input
Click(t) ==
    /\ pc \in { "idle", "done", "raised" }
    /\ ticker' = t
    /\ requests' = << >>
    /\ overview_response' = EmptyObject
    /\ fmp_sector' = Null
    /\ fmp_industry' = Null
    /\ sector_pe' = Null
    /\ income_response' = EmptyObject
    /\ balance_response' = EmptyObject
    /\ data' = EmptyObject
    /\ analysis' = << >>
    /\ target_price' = << >>
    /\ prompt' = << >>
    /\ exception' = NoException
    /\ IF Len(t) > 0
       THEN pc' = "overview" /\ display' = << >>
       ELSE pc' = "done" /\ display' = << Shown("error", InvalidTickerMessage) >>
    /\ UNCHANGED upstream

\* line 18
GetOverview ==
    /\ pc = "overview"
    /\ requests' = Append(requests, "AV_OVERVIEW")
    /\ IF AvGetException(upstream.overview) # NoException
       THEN Raise(AvGetException(upstream.overview)) /\ UNCHANGED overview_response
       ELSE /\ overview_response' = upstream.overview.body
            /\ pc' = "fmp_sector"
            /\ UNCHANGED << display, exception >>
    /\ UNCHANGED << upstream, ticker, fmp_sector, fmp_industry, sector_pe,
                    income_response, balance_response, data, analysis,
                    target_price, prompt >>

\* line 21
GetFmpSector ==
    /\ pc = "fmp_sector"
    /\ requests' = Append(requests, "FMP_PROFILE")
    /\ LET r == FetchFmpSector(upstream.profile)
       IN  IF r.exc # NoException
           THEN Raise(r.exc) /\ UNCHANGED << fmp_sector, fmp_industry >>
           ELSE /\ fmp_sector' = r.sector
                /\ fmp_industry' = r.industry
                /\ pc' = "sector_pe"
                /\ UNCHANGED << display, exception >>
    /\ UNCHANGED << upstream, ticker, overview_response, sector_pe, income_response,
                    balance_response, data, analysis, target_price, prompt >>

\* line 24
GetSectorPeRatio ==
    /\ pc = "sector_pe"
    /\ requests' = Append(requests, "FMP_SECTOR_PE")
    /\ \E r \in FetchSectorPeRatio(upstream.sector_pe, fmp_sector) :
          IF r.exc # NoException
          THEN Raise(r.exc) /\ UNCHANGED sector_pe
          ELSE /\ sector_pe' = r.value
               /\ pc' = "income"
               /\ UNCHANGED << display, exception >>
    /\ UNCHANGED << upstream, ticker, overview_response, fmp_sector, fmp_industry,
                    income_response, balance_response, data, analysis,
                    target_price, prompt >>

\* line 27
GetIncome ==
    /\ pc = "income"
    /\ requests' = Append(requests, "AV_INCOME_STATEMENT")
    /\ IF AvGetException(upstream.income) # NoException
       THEN Raise(AvGetException(upstream.income)) /\ UNCHANGED income_response
       ELSE /\ income_response' = upstream.income.body
            /\ pc' = "balance"
            /\ UNCHANGED << display, exception >>
    /\ UNCHANGED << upstream, ticker, overview_response, fmp_sector, fmp_industry,
                    sector_pe, balance_response, data, analysis, target_price,
                    prompt >>

\* line 28
GetBalance ==
    /\ pc = "balance"
    /\ requests' = Append(requests, "AV_BALANCE_SHEET")
    /\ IF AvGetException(upstream.balance) # NoException
       THEN Raise(AvGetException(upstream.balance)) /\ UNCHANGED balance_response
       ELSE /\ balance_response' = upstream.balance.body
            /\ pc' = "build"
            /\ UNCHANGED << display, exception >>
    /\ UNCHANGED << upstream, ticker, overview_response, fmp_sector, fmp_industry,
                    sector_pe, income_response, data, analysis, target_price,
                    prompt >>

\* lines 31-59 and the assignment of line 163
ReturnFundamentalData ==
    /\ pc = "build"
    /\ LET e == BuildException(overview_response, income_response, balance_response)
       IN  IF e # NoException
           THEN Raise(e) /\ UNCHANGED data
           ELSE /\ data' \in BuildFundamentalData(ticker, overview_response,
                                 fmp_sector, fmp_industry, sector_pe,
                                 income_response, balance_response)
                /\ pc' = "summary"
                /\ UNCHANGED << display, exception >>
    /\ UNCHANGED << upstream, ticker, requests, overview_response, fmp_sector,
                    fmp_industry, sector_pe, income_response, balance_response,
                    analysis, target_price, prompt >>

\* lines 165, 166
ShowSummary ==
    /\ pc = "summary"
    /\ display' = Append(display, Shown("dataframe", << >>))
    /\ pc' = "analyze"
    /\ UNCHANGED << upstream, ticker, requests, overview_response, fmp_sector,
                    fmp_industry, sector_pe, income_response, balance_response,
                    data, analysis, target_price, prompt, exception >>

\* line 169: analyze_with_gpt(data)
AnalyzeWithGpt ==
    /\ pc = "analyze"
    /\ IF ~(PromptKeys \subseteq DOMAIN data)
       THEN Raise("KeyError") /\ UNCHANGED << requests, prompt, analysis, target_price >>
       ELSE /\ prompt' = Prompt(data)
            /\ requests' = Append(requests, "OPENAI_CHAT")
            /\ IF upstream.llm.status # "ok"
               THEN Raise("OpenAIError") /\ UNCHANGED << analysis, target_price >>
               ELSE /\ analysis' = TakeawaysPart(upstream.llm.content)
                    /\ target_price' = TargetPrice(upstream.llm.content)
                    /\ pc' = "results"
                    /\ UNCHANGED << display, exception >>
    /\ UNCHANGED << upstream, ticker, overview_response, fmp_sector, fmp_industry,
                    sector_pe, income_response, balance_response, data >>

\* lines 171-178
ShowAnalysis ==
    /\ pc = "results"
    /\ display' = display \o TakeawayLines(SplitLines(analysis))
                  \o << Shown("warning", target_price) >>
    /\ pc' = "done"
    /\ UNCHANGED << upstream, ticker, requests, overview_response, fmp_sector,
                    fmp_industry, sector_pe, income_response, balance_response,
                    data, analysis, target_price, prompt, exception >>

Next ==
    \/ \E t \in Tickers : Click(t)
    \/ GetOverview
    \/ GetFmpSector
    \/ GetSectorPeRatio
    \/ GetIncome
    \/ GetBalance
    \/ ReturnFundamentalData
    \/ ShowSummary
    \/ AnalyzeWithGpt
    \/ ShowAnalysis

Spec == Init /\ [][Next]_vars

-----------------------------------------------------------------------------
(* Vocabulary of the properties. *)

\* the run has ended, normally or by an exception
Finished == pc \in { "done", "raised" }

Issued(name) == \E i \in 1..Len(requests) : requests[i] = name

TimesIssued(name) == Cardinality({ i \in 1..Len(requests) : requests[i] = name })

Lookups ==
    << "AV_OVERVIEW", "FMP_PROFILE", "FMP_SECTOR_PE", "AV_INCOME_STATEMENT",
       "AV_BALANCE_SHEET" >>

\* fetch_fundamental_data returned a snapshot
FetchReturned == DOMAIN data # {}

\* fetch_fundamental_data ended by an exception
FetchRaised == pc = "raised" /\ ~FetchReturned

HasShown(kind) == \E i \in 1..Len(display) : display[i].kind = kind

\* the ticker is empty or only whitespace
IsBlank(t) == \A i \in 1..Len(t) : t[i] \in WhitespaceChars

\* the figure under key k is missing from the report: no key, empty, or null
Missing(report, k) == k \notin DOMAIN report \/ report[k] = << >> \/ report[k] = Null

\* the statement holds no annual report at all
NoReport(body) == "annualReports" \notin DOMAIN body \/ body["annualReports"] = << >>

\* the other lookups answered as a healthy provider does
OthersHealthyForBalance ==
    /\ upstream.overview = Healthy.overview
    /\ upstream.income = Healthy.income

\* the latest balance report of the answer, or {} when there is none
LatestBalance ==
    IF NoReport(upstream.balance.body) THEN EmptyObject
    ELSE upstream.balance.body["annualReports"][1]

\* the figure under k of the latest balance report is a number
BalanceFigurePresent(k) ==
    ~NoReport(upstream.balance.body) /\ ~Missing(LatestBalance, k)
    /\ IsNumeral(LatestBalance[k])

\* n written with no grouping and two decimals of its hundredths h: "3.07"
Fixed2(n, h) == DecStr(n) \o << ".", DigitChar(h \div 10), DigitChar(h % 10) >>

Pad3(n) == << DigitChar(n \div 100), DigitChar((n \div 10) % 10), DigitChar(n % 10) >>

\* v in groups of three digits separated by commas: 1234567 is "1,234,567"
RECURSIVE Grouped(_)
Grouped(v) ==
    IF v < 1000 THEN DecStr(v)
    ELSE Grouped(v \div 1000) \o << "," >> \o Pad3(v % 1000)

\* v in units of unit with two decimals, as the nearest hundredth or, on a
\* tie, either neighbour
ScaledTexts(v, unit) ==
    LET c == unit \div 100
        lo == v \div c
        r == v % c
        hs == IF 2 * r < c THEN { lo } ELSE IF 2 * r > c THEN { lo + 1 } ELSE { lo, lo + 1 }
    IN  { Fixed2(h \div 100, h % 100) : h \in hs }

\* the renderings the three-band rule allows for v
BandTexts(v) ==
    IF v >= 10^9 THEN { t \o << "B" >> : t \in ScaledTexts(v, 10^9) }
    ELSE IF v >= 10^6 THEN { t \o << "M" >> : t \in ScaledTexts(v, 10^6) }
    ELSE { DecStr(v), DecStr(v) \o << ".", "0", "0" >>, Grouped(v),
           Grouped(v) \o << ".", "0", "0" >> }

\* the places of the snapshot that show a magnitude, with the figure each shows
\* when the answer holds one: << key, has a figure, the figure's text >>
MagnitudePlaces ==
    LET ov == upstream.overview.body
        inc == IF NoReport(upstream.income.body) THEN EmptyObject
               ELSE upstream.income.body["annualReports"][1]
        Place(key, d, k) == << key, ~Missing(d, k) /\ IsNumeral(d[k]), Get(d, k, << >>) >>
    IN  { Place("Market Cap", ov, "MarketCapitalization"),
          Place("Revenue", inc, "totalRevenue"),
          Place("Net Income", inc, "netIncome"),
          Place("Total Assets", LatestBalance, "totalAssets"),
          Place("Total Liabilities", LatestBalance, "totalLiabilities") }

\* fetch_sector_pe_ratio returned (it did not raise)
SectorPeReturned == pc = "income" \/ Issued("AV_INCOME_STATEMENT")

\* the rows of the sector table, when it is a well-formed non-empty list
TableRows ==
    IF /\ upstream.sector_pe.status = "ok"
       /\ upstream.sector_pe.body.isList
       /\ \A i \in 1..Len(upstream.sector_pe.body.items) :
             { "sector", "pe" } \subseteq DOMAIN upstream.sector_pe.body.items[i]
    THEN upstream.sector_pe.body.items
    ELSE << >>

\* the reply of the chat model
FullResponse == upstream.llm.content

\* the reply holds a line "Target Entry Point: $<digits>.<digits>"
HasPriceLine(s) == \E i \in 1..Len(s) : MatchEnd(s, i) > 0

\* the tokens of s that are not whitespace
Words(s) == SelectSeq(s, LAMBDA x : x \notin WhitespaceChars)

\* s without its label lines: each Label and what follows it up to the end of its line
RECURSIVE WithoutLabelLines(_, _)
WithoutLabelLines(s, inLabelLine) ==
    IF Len(s) = 0 THEN << >>
    ELSE IF s[1] = Label THEN WithoutLabelLines(Tail(s), TRUE)
    ELSE IF s[1] = "\n" THEN << "\n" >> \o WithoutLabelLines(Tail(s), FALSE)
    ELSE (IF inLabelLine THEN << >> ELSE << s[1] >>)
         \o WithoutLabelLines(Tail(s), inLabelLine)

\* the keys every snapshot has
SnapshotKeys ==
    { "Ticker", "Company Name", "Sector", "Industry", "Sector P/E", "Market Cap",
      "Revenue", "Net Income", "Total Assets", "Total Liabilities", "P/E Ratio",
      "EPS", "Debt/Equity Ratio", "ROE", "ROA" }

-----------------------------------------------------------------------------
(* The properties. *)

\* C1: when the button is pressed with an empty or whitespace-only ticker, no
\* HTTP GET and no chat request is issued, and the run ends showing only the
\* rejection message.  Stated with every provider healthy.
C1_BlankTickerSendsNothing ==
    (pc # "idle" /\ IsBlank(ticker) /\ upstream = Healthy) =>
        /\ requests = << >>
        /\ Finished => display = << Shown("error", InvalidTickerMessage) >>

\* C2: the lookups of fetch_fundamental_data are independent.  Whatever lookups
\* fail or come back empty, a run with a ticker issues all five lookups and
\* gets a snapshot, in which the fields fed by a failed lookup hold "N/A" and
\* the fields fed by a healthy one do not.
C2_LookupsIndependent ==
    (Finished /\ ~IsBlank(ticker)) =>
        /\ \A i \in 1..Len(Lookups) : Issued(Lookups[i])
        /\ FetchReturned
        /\ upstream.overview.status # "ok" =>
              \A k \in { "Company Name", "Market Cap", "P/E Ratio", "EPS", "ROE", "ROA" } :
                 data[k] = NA
        /\ upstream.overview = Healthy.overview =>
              \A k \in { "Company Name", "Market Cap", "P/E Ratio", "EPS", "ROE", "ROA" } :
                 data[k] # NA
        /\ upstream.profile.status # "ok" => data["Sector"] = NA /\ data["Industry"] = NA
        /\ upstream.profile = Healthy.profile => data["Sector"] # NA /\ data["Industry"] # NA
        /\ upstream.sector_pe.status # "ok" => data["Sector P/E"] = NA
        /\ (upstream.sector_pe = Healthy.sector_pe /\ upstream.profile = Healthy.profile)
              => data["Sector P/E"] # NA
        /\ upstream.income.status # "ok" => data["Revenue"] = NA /\ data["Net Income"] = NA
        /\ upstream.income = Healthy.income => data["Revenue"] # NA /\ data["Net Income"] # NA
        /\ upstream.balance.status # "ok" =>
              \A k \in { "Total Assets", "Total Liabilities", "Debt/Equity Ratio" } :
                 data[k] = NA
        /\ upstream.balance = Healthy.balance =>
              \A k \in { "Total Assets", "Total Liabilities", "Debt/Equity Ratio" } :
                 data[k] # NA

\* C3: when the balance sheet came back and totalAssets or totalLiabilities is
\* missing from its latest annual report (no key, empty, null, or no annual
\* report at all), fetch_fundamental_data does not raise and the snapshot's
\* "Debt/Equity Ratio" is "N/A".  Stated with the other lookups healthy.
C3_MissingBalanceGivesSentinel ==
    ( /\ OthersHealthyForBalance
      /\ ~IsBlank(ticker)
      /\ upstream.balance.status = "ok"
      /\ Issued("AV_BALANCE_SHEET") /\ pc # "build"
      /\ \/ NoReport(upstream.balance.body)
         \/ Missing(LatestBalance, "totalAssets")
         \/ Missing(LatestBalance, "totalLiabilities") ) =>
        /\ ~FetchRaised
        /\ FetchReturned => data["Debt/Equity Ratio"] = NA

\* C4: when totalAssets and totalLiabilities are both present, "Debt/Equity
\* Ratio" is liabilities / (assets - liabilities) rounded to two decimals if
\* the equity assets - liabilities is positive, and "N/A" if it is zero or
\* negative.
C4_DebtEquityRatio ==
    ( /\ FetchReturned
      /\ ~IsBlank(ticker)
      /\ BalanceFigurePresent("totalAssets")
      /\ BalanceFigurePresent("totalLiabilities") ) =>
        LET a == ParseInt(LatestBalance["totalAssets"])
            l == ParseInt(LatestBalance["totalLiabilities"])
        IN  IF a - l > 0
            THEN \E h \in 0..(100 * l + 1) :
                    /\ 2 * (100 * l - h * (a - l)) <= a - l
                    /\ 2 * (h * (a - l) - 100 * l) <= a - l
                    /\ data["Debt/Equity Ratio"]
                          \in { FloatStr(FALSE, h), Fixed2(h \div 100, h % 100) }
            ELSE data["Debt/Equity Ratio"] = NA

\* C5: when the reply holds a line "Target Entry Point: $<n>" with <n> a
\* decimal number, the target price analyze_with_gpt returns is exactly <n>,
\* with neither the label nor the dollar sign.
C5_TargetPriceIsTheNumber ==
    (pc \in { "results", "done" } /\ ~IsBlank(ticker) /\ HasPriceLine(FullResponse)) =>
        LET i == SearchStart(FullResponse)
        IN  target_price = SubSeq(FullResponse, i + 3, MatchEnd(FullResponse, i))

\* C6: when the reply holds no labelled dollar amount of the expected shape,
\* analyze_with_gpt does not raise, the target price is "Not Available", the
\* takeaways are the rest of the reply (all of its text outside the label's own
\* line), and the page shows them and the sentinel.
C6_UnparseableReplyStillShown ==
    ( /\ Issued("OPENAI_CHAT") /\ upstream.llm.status = "ok"
      /\ ~IsBlank(ticker)
      /\ ~HasPriceLine(FullResponse) ) =>
        /\ pc # "raised"
        /\ pc = "done" =>
              /\ target_price = NotAvailable
              /\ Words(analysis) = Words(WithoutLabelLines(FullResponse, FALSE))
              /\ display[Len(display)] = Shown("warning", NotAvailable)
              /\ Words(Concat([i \in 1..(Len(display) - 2) |-> display[i + 1].text]))
                    = Words(analysis)

C8_LookupIgnoresCase ==
    (SectorPeReturned /\ Len(TableRows) > 0) =>
        \A i \in 1..Len(TableRows) :
            Lower(TableRows[i]["sector"]) = Lower(fmp_sector) =>
                \E j \in 1..Len(TableRows) :
                    /\ Lower(TableRows[j]["sector"]) = Lower(fmp_sector)
                    /\ sector_pe = TableRows[j]["pe"]

\* C8, amended: fetch_sector_pe_ratio is case-sensitive.  It returns the P/E of
\* the last row whose sector name equals its argument character for character,
\* and "N/A" when no row does, also when a row differs only in letter case.
C8_LookupIsExact ==
    SectorPeReturned =>
        LET exact == { i \in 1..Len(TableRows) : TableRows[i]["sector"] = fmp_sector }
        IN  IF exact = {} THEN sector_pe = NA
            ELSE \E i \in exact :
                    /\ \A j \in exact : j <= i
                    /\ sector_pe = TableRows[i]["pe"]

\* C8, its case: the sector differs only in case from a row of the table, no
\* row equals it, and the lookup returned "N/A"
C8_Witness ==
    /\ SectorPeReturned
    /\ Len(TableRows) > 0
    /\ \E i \in 1..Len(TableRows) :
          /\ TableRows[i]["sector"] # fmp_sector
          /\ Lower(TableRows[i]["sector"]) = Lower(fmp_sector)
    /\ \A i \in 1..Len(TableRows) : TableRows[i]["sector"] # fmp_sector
    /\ sector_pe = NA

\* C9: every snapshot fetch_fundamental_data returns has the same fifteen keys,
\* whatever the lookups answered, and every key the prompt interpolates is one
\* of them, so building the prompt never meets a missing key.
C9_StableKeySet ==
    /\ FetchReturned => DOMAIN data = SnapshotKeys
    /\ FetchReturned => PromptKeys \subseteq DOMAIN data
    /\ FetchReturned => exception # "KeyError"

\* C9, its case: a snapshot with some fields available and others not has
\* been interpolated into a prompt that was sent
C9_Witness ==
    /\ FetchReturned
    /\ Issued("OPENAI_CHAT")
    /\ Len(prompt) = Len(PromptFields)
    /\ data["Sector P/E"] = NA
    /\ data["Debt/Equity Ratio"] = NA
    /\ data["Revenue"] # NA

\* C10: a run with a ticker goes through its steps in one fixed order with no
\* retry: every lookup is issued at most once, the table is shown only after
\* all five lookups, the chat request comes after the table, and by the end of
\* the run exactly one chat request has been issued.
C10_OneOrderedPass ==
    ~IsBlank(ticker) =>
        /\ \A i \in 1..Len(requests) :
              requests[i] = (Lookups \o << "OPENAI_CHAT" >>)[i]
        /\ HasShown("dataframe") =>
              (FetchReturned /\ \A i \in 1..Len(Lookups) : Issued(Lookups[i]))
        /\ Issued("OPENAI_CHAT") => HasShown("dataframe")
        /\ TimesIssued("OPENAI_CHAT") <= 1
        /\ Finished => TimesIssued("OPENAI_CHAT") = 1

====
